---- MODULE Spec2Model ----
(***************************************************************************)
(* The conversational model builder of fmdtools/cli/nlp_wizard.py: the     *)
(* session loop (main), one dialogue turn (process_input), the merge of an *)
(* analysis into the accumulated knowledge (update_extracted_info), the    *)
(* specification builder (build_spec) and the readiness gate (is_ready).   *)
(*                                                                         *)
(* Numbers are Python floats in the source.  They are kept here as         *)
(* integers counting hundredths (1800.0 is 180000, 0.85 is 85).            *)
(***************************************************************************)
EXTENDS Integers, Sequences, FiniteSets, TLC

\* Number of process_input() turns explored in one session.
MaxTurns == 3

\* is_ready(): a component needs at least this many recorded states.
MinStates == 3

(***************************************************************************)
(* Text.  A Python str is a sequence of one-character strings; Spell gives *)
(* the characters of every name the model uses.                            *)
(***************************************************************************)
Spell ==
    ("Engine" :> <<"E", "n", "g", "i", "n", "e">>)
    @@ ("Pump" :> <<"P", "u", "m", "p">>)
    @@ ("Valve" :> <<"V", "a", "l", "v", "e">>)
    @@ ("AcSystem" :> <<"A", "c", "S", "y", "s", "t", "e", "m">>)
    @@ ("Battery" :> <<"B", "a", "t", "t", "e", "r", "y">>)
    @@ ("Motor" :> <<"M", "o", "t", "o", "r">>)
    @@ ("rpm" :> <<"r", "p", "m">>)
    @@ ("temperature" :> <<"t", "e", "m", "p", "e", "r", "a", "t", "u", "r", "e">>)
    @@ ("pressure" :> <<"p", "r", "e", "s", "s", "u", "r", "e">>)
    @@ ("flow_rate" :> <<"f", "l", "o", "w", "_", "r", "a", "t", "e">>)
    @@ ("voltage" :> <<"v", "o", "l", "t", "a", "g", "e">>)
    @@ ("efficiency" :> <<"e", "f", "f", "i", "c", "i", "e", "n", "c", "y">>)
    @@ ("status" :> <<"s", "t", "a", "t", "u", "s">>)
    @@ ("fuel_level" :> <<"f", "u", "e", "l", "_", "l", "e", "v", "e", "l">>)
    @@ ("oil_pressure" :> <<"o", "i", "l", "_", "p", "r", "e", "s", "s", "u", "r", "e">>)
    @@ ("power_output" :> <<"p", "o", "w", "e", "r", "_", "o", "u", "t", "p", "u", "t">>)
    @@ ("power_consumption" :> <<"p", "o", "w", "e", "r", "_", "c", "o", "n", "s", "u", "m", "p", "t", "i", "o", "n">>)
    @@ ("current" :> <<"c", "u", "r", "r", "e", "n", "t">>)
    @@ ("charge_level" :> <<"c", "h", "a", "r", "g", "e", "_", "l", "e", "v", "e", "l">>)
    @@ ("vibration" :> <<"v", "i", "b", "r", "a", "t", "i", "o", "n">>)
    @@ ("position" :> <<"p", "o", "s", "i", "t", "i", "o", "n">>)
    @@ ("pressure_drop" :> <<"p", "r", "e", "s", "s", "u", "r", "e", "_", "d", "r", "o", "p">>)
    @@ ("flow_coefficient" :> <<"f", "l", "o", "w", "_", "c", "o", "e", "f", "f", "i", "c", "i", "e", "n", "t">>)
    @@ ("reading" :> <<"r", "e", "a", "d", "i", "n", "g">>)
    @@ ("accuracy" :> <<"a", "c", "c", "u", "r", "a", "c", "y">>)
    @@ ("noise_level" :> <<"n", "o", "i", "s", "e", "_", "l", "e", "v", "e", "l">>)
    @@ ("engine" :> <<"e", "n", "g", "i", "n", "e">>)
    @@ ("motor" :> <<"m", "o", "t", "o", "r">>)
    @@ ("pump" :> <<"p", "u", "m", "p">>)
    @@ ("hydraulic" :> <<"h", "y", "d", "r", "a", "u", "l", "i", "c">>)
    @@ ("wind" :> <<"w", "i", "n", "d">>)
    @@ ("turbine" :> <<"t", "u", "r", "b", "i", "n", "e">>)
    @@ ("battery" :> <<"b", "a", "t", "t", "e", "r", "y">>)
    @@ ("ac" :> <<"a", "c">>)
    @@ ("air" :> <<"a", "i", "r">>)
    @@ ("climate" :> <<"c", "l", "i", "m", "a", "t", "e">>)
    @@ ("electrical" :> <<"e", "l", "e", "c", "t", "r", "i", "c", "a", "l">>)
    @@ ("valve" :> <<"v", "a", "l", "v", "e">>)
    @@ ("control" :> <<"c", "o", "n", "t", "r", "o", "l">>)
    @@ ("sensor" :> <<"s", "e", "n", "s", "o", "r">>)
    @@ ("flow" :> <<"f", "l", "o", "w">>)
    @@ ("fluid" :> <<"f", "l", "u", "i", "d">>)
    @@ ("gas" :> <<"g", "a", "s">>)
    @@ ("liquid" :> <<"l", "i", "q", "u", "i", "d">>)
    @@ ("compressor" :> <<"c", "o", "m", "p", "r", "e", "s", "s", "o", "r">>)
    @@ ("fan" :> <<"f", "a", "n">>)
    @@ ("heater" :> <<"h", "e", "a", "t", "e", "r">>)
    @@ ("cooler" :> <<"c", "o", "o", "l", "e", "r">>)
    @@ ("speed" :> <<"s", "p", "e", "e", "d">>)
    @@ ("temp" :> <<"t", "e", "m", "p">>)
    @@ ("rate" :> <<"r", "a", "t", "e">>)
    @@ ("power" :> <<"p", "o", "w", "e", "r">>)
    @@ ("charge" :> <<"c", "h", "a", "r", "g", "e">>)
    @@ ("fuel" :> <<"f", "u", "e", "l">>)
    @@ ("Ac" :> <<"A", "c">>)
    @@ ("Air" :> <<"A", "i", "r">>)
    @@ ("Simple pump" :> <<"S", "i", "m", "p", "l", "e", " ", "p", "u", "m", "p">>)
    @@ ("G37" :> <<"G", "3", "7">>)
    @@ ("diagram" :> <<"d", "i", "a", "g", "r", "a", "m">>)
    @@ ("default_var" :> <<"d", "e", "f", "a", "u", "l", "t", "_", "v", "a", "r">>)
    @@ ("Simple_pump" :> <<"S", "i", "m", "p", "l", "e", "_", "p", "u", "m", "p">>)
    @@ ("volume" :> <<"v", "o", "l", "u", "m", "e">>)
    @@ ("level" :> <<"l", "e", "v", "e", "l">>)
    @@ ("1800" :> <<"1", "8", "0", "0">>)
    @@ ("25" :> <<"2", "5">>)
    @@ ("7" :> <<"7">>)
    @@ ("9" :> <<"9">>)
    @@ ("max" :> <<"m", "a", "x">>)
    @@ ("psi" :> <<"p", "s", "i">>)
    @@ ("range" :> <<"r", "a", "n", "g", "e">>)
    @@ ("flow rate" :> <<"f", "l", "o", "w", " ", "r", "a", "t", "e">>)
    @@ ("flowrate" :> <<"f", "l", "o", "w", "r", "a", "t", "e">>)
    @@ ("displacement" :> <<"d", "i", "s", "p", "l", "a", "c", "e", "m", "e", "n", "t">>)
    @@ ("hp" :> <<"h", "p">>)
    @@ ("bhp" :> <<"b", "h", "p">>)
    @@ ("bar" :> <<"b", "a", "r">>)
    @@ ("gpm" :> <<"g", "p", "m">>)
    @@ ("lpm" :> <<"l", "p", "m">>)
    @@ ("cfm" :> <<"c", "f", "m">>)
    @@ ("l" :> <<"l">>)
    @@ ("kw" :> <<"k", "w">>)
    @@ ("capacity" :> <<"c", "a", "p", "a", "c", "i", "t", "y">>)
    @@ ("torque" :> <<"t", "o", "r", "q", "u", "e">>)
    @@ ("noise" :> <<"n", "o", "i", "s", "e">>)
    @@ ("The" :> <<"T", "h", "e">>)
    @@ ("overheating" :> <<"o", "v", "e", "r", "h", "e", "a", "t", "i", "n", "g">>)
    @@ ("system" :> <<"s", "y", "s", "t", "e", "m">>)
    @@ ("Simple" :> <<"S", "i", "m", "p", "l", "e">>)
    @@ ("with" :> <<"w", "i", "t", "h">>)
    @@ ("and" :> <<"a", "n", "d">>)
    @@ ("states" :> <<"s", "t", "a", "t", "e", "s">>)
    @@ ("faults" :> <<"f", "a", "u", "l", "t", "s">>)
    @@ ("has" :> <<"h", "a", "s">>)
    @@ ("leak" :> <<"l", "e", "a", "k">>)
    @@ ("explosion" :> <<"e", "x", "p", "l", "o", "s", "i", "o", "n">>)
    @@ ("generate" :> <<"g", "e", "n", "e", "r", "a", "t", "e">>)
    @@ ("can" :> <<"c", "a", "n">>)
    @@ ("the" :> <<"t", "h", "e">>)
    @@ ("g37" :> <<"g", "3", "7">>)
    @@ ("simple" :> <<"s", "i", "m", "p", "l", "e">>)
    @@ ("it" :> <<"i", "t">>)
    @@ ("explode" :> <<"e", "x", "p", "l", "o", "d", "e">>)
    @@ ("min" :> <<"m", "i", "n">>)
    @@ ("rated" :> <<"r", "a", "t", "e", "d">>)
    @@ ("operating" :> <<"o", "p", "e", "r", "a", "t", "i", "n", "g">>)
    @@ ("nominal" :> <<"n", "o", "m", "i", "n", "a", "l">>)
    @@ ("" :> <<>>)
    @@ ("DefaultClass" :> <<"D", "e", "f", "a", "u", "l", "t", "C", "l", "a", "s", "s">>)

LowerOf ==
    ("A" :> "a") @@ ("B" :> "b") @@ ("C" :> "c") @@ ("D" :> "d") @@ ("E" :> "e") @@ ("F" :> "f")
    @@ ("G" :> "g") @@ ("H" :> "h") @@ ("I" :> "i") @@ ("J" :> "j") @@ ("K" :> "k") @@ ("L" :> "l")
    @@ ("M" :> "m") @@ ("N" :> "n") @@ ("O" :> "o") @@ ("P" :> "p") @@ ("Q" :> "q") @@ ("R" :> "r")
    @@ ("S" :> "s") @@ ("T" :> "t") @@ ("U" :> "u") @@ ("V" :> "v") @@ ("W" :> "w") @@ ("X" :> "x")
    @@ ("Y" :> "y") @@ ("Z" :> "z")

Chars(s) == Spell[s]

Range(seq) == {seq[i] : i \in 1..Len(seq)}

Digit == <<"0", "1", "2", "3", "4", "5", "6", "7", "8", "9">>

LowerChar(c) == IF c \in DOMAIN LowerOf THEN LowerOf[c] ELSE c

\* str.lower()
Lower(s) == [i \in 1..Len(s) |-> LowerChar(s[i])]

\* the Python test  p in s  on two strings
IsSubstr(p, s) ==
    \E i \in 1..(Len(s) - Len(p) + 1) : \A j \in 1..Len(p) : s[i + j - 1] = p[j]

\* the Python test  p in s.lower()  for a literal p and a name s
InLower(p, s) == IsSubstr(Chars(p), Lower(Chars(s)))

RECURSIVE Digits(_)
Digits(n) == IF n < 10 THEN <<Digit[n + 1]>> ELSE Digits(n \div 10) \o <<Digit[(n % 10) + 1]>>

\* repr() of a float given in hundredths: 180000 is "1800.0", 85 is "0.85"
Repr(v) ==
    LET frac == v % 100
    IN  Digits(v \div 100) \o <<".">> \o
        (IF frac % 10 = 0 THEN <<Digit[(frac \div 10) + 1]>>
         ELSE <<Digit[(frac \div 10) + 1], Digit[(frac % 10) + 1]>>)

RECURSIVE DictItems(_, _)
DictItems(states, keys) ==
    IF keys = {} THEN <<>>
    ELSE LET k == CHOOSE x \in keys : TRUE
             rest == DictItems(states, keys \ {k})
         IN  <<"'">> \o Chars(k) \o <<"'", ":", " ">> \o Repr(states[k])
             \o (IF rest = <<>> THEN <<>> ELSE <<",", " ">> \o rest)

\* str() of a state mapping, "{'rpm': 1800.0, 'temperature': 25.0}".  Python
\* lists the keys in insertion order; here they come in some fixed order,
\* which no substring test below can tell apart: every probe is a word of
\* letters and cannot span the "': 25.0, '" between two keys.
StrDict(states) == <<"{">> \o DictItems(states, DOMAIN states) \o <<"}">>

\* any(word in str(states).lower() for word in words)
AnyIn(words, states) ==
    LET text == Lower(StrDict(states))
    IN  \E w \in words : IsSubstr(Chars(w), text)

\* core.sanitize_identifier on a character sequence
IdentChars ==
    {"a", "b", "c", "d", "e", "f", "g", "h", "i", "j", "k", "l", "m", "n", "o",
     "p", "q", "r", "s", "t", "u", "v", "w", "x", "y", "z", "_"}
    \cup DOMAIN LowerOf \cup {Digit[i] : i \in 1..10}

RECURSIVE Collapse(_)
Collapse(s) ==
    IF Len(s) < 2 THEN s
    ELSE IF s[1] = "_" /\ s[2] = "_" THEN Collapse(Tail(s))
    ELSE <<s[1]>> \o Collapse(Tail(s))

RECURSIVE StripLeft(_)
StripLeft(s) == IF s # <<>> /\ s[1] = "_" THEN StripLeft(Tail(s)) ELSE s

RECURSIVE StripRight(_)
StripRight(s) ==
    IF s # <<>> /\ s[Len(s)] = "_" THEN StripRight(SubSeq(s, 1, Len(s) - 1)) ELSE s

sanitize_identifier(name) ==
    LET replaced == [i \in 1..Len(name) |-> IF name[i] \in IdentChars THEN name[i] ELSE "_"]
        clean == StripRight(StripLeft(Collapse(replaced)))
        prefixed == IF clean # <<>> /\ clean[1] \in {Digit[i] : i \in 1..10}
                    THEN <<"_">> \o clean ELSE clean
    IN  IF prefixed = <<>> THEN Chars("default_var") ELSE prefixed

\* the str whose characters are chars
Str(chars) == CHOOSE s \in DOMAIN Spell : Spell[s] = chars

UpperChar(c) ==
    IF \E u \in DOMAIN LowerOf : LowerOf[u] = c
    THEN CHOOSE u \in DOMAIN LowerOf : LowerOf[u] = c ELSE c

IsLetter(c) == c \in DOMAIN LowerOf \/ \E u \in DOMAIN LowerOf : LowerOf[u] = c

\* str.title(): a letter is upper case after a non-letter, lower case after a letter
Title(s) ==
    [i \in 1..Len(s) |->
        IF i > 1 /\ IsLetter(s[i - 1]) THEN LowerChar(s[i]) ELSE UpperChar(s[i])]

\* core.sanitize_class_name on a character sequence.  The character class
\* [^0-9a-zA-Z\\s] keeps letters, digits and the backslash, so a space is
\* removed before title() sees it.
sanitize_class_name(name) ==
    LET clean == SelectSeq(name, LAMBDA c : IsLetter(c) \/ c \in Range(Digit) \/ c = "\\")
        class_name == SelectSeq(Title(clean), LAMBDA c : c # " ")
        prefixed == IF class_name # <<>> /\ class_name[1] \in Range(Digit)
                    THEN <<"_">> \o class_name ELSE class_name
    IN  IF prefixed = <<>> THEN Chars("DefaultClass") ELSE prefixed

(***************************************************************************)
(* Data.  None and Some model Optional[...]; a dict is a function.         *)
(***************************************************************************)
None == <<>>

Some(x) == <<x>>

EmptyDict == [k \in {} |-> 0]

\* dict.update / item assignment: the entries of new replace those of old
Update(old, new) ==
    [k \in DOMAIN old \cup DOMAIN new |-> IF k \in DOMAIN new THEN new[k] ELSE old[k]]

\* list(S): the elements of a set in the order the interpreter lists them.
\* Nothing but message text reads that order, so it is one fixed order here.
RECURSIVE ListOf(_)
ListOf(S) ==
    IF S = {} THEN <<>>
    ELSE LET x == CHOOSE y \in S : TRUE IN <<x>> \o ListOf(S \ {x})

RECURSIVE Orderings(_)
Orderings(S) ==
    IF S = {} THEN {<<>>}
    ELSE UNION {{<<x>> \o rest : rest \in Orderings(S \ {x})} : x \in S}

\* Canonical component tags the analysis produces, system-name candidates,
\* state names and canonical fault names.
CompVocab == {"Engine", "Pump", "Valve", "AcSystem"}

Names == {"Simple pump", "G37"}

FaultVocab == {"leak", "explosion"}

(***************************************************************************)
(* The state phase of analyze_input.  The text it scans is a sequence of   *)
(* tokens: words of letters, digits and underscores that start with a      *)
(* letter, unsigned integer literals, and the marks ":", ",", ";" and "-". *)
(* Two neighbouring words or numbers are                                   *)
(* separated by blanks; a mark may or may not have blanks around it, which *)
(* no pattern below can tell apart.  A match is the tuple match.groups()   *)
(* with <<>> for a group that did not take part, and the index of its     *)
(* last token.  A group is the sequence of its characters.                 *)
(***************************************************************************)
W(s) == [kind |-> "word", text |-> s]

N(s) == [kind |-> "num", text |-> s]

Colon == [kind |-> "mark", text |-> ":"]

Comma == [kind |-> "mark", text |-> ","]

Dash == [kind |-> "mark", text |-> "-"]

Semicolon == [kind |-> "mark", text |-> ";"]

\* \w+ takes one whole word or one whole integer literal
IsWord(t) == t.kind \in {"word", "num"}

\* \d+(?:\.\d+)? takes one integer literal
IsNumber(t) == t.kind = "num"

LowerText(t) == Lower(Chars(t.text))

Match(groups, last) == Some([groups |-> groups, last |-> last])

\* r"\b(\w+)\s*:\s*(\d+(?:\.\d+)?)\s*(\w+)?"
ExplicitValue(tokens, i) ==
    IF /\ i + 2 <= Len(tokens)
       /\ IsWord(tokens[i]) /\ tokens[i + 1] = Colon /\ IsNumber(tokens[i + 2])
    THEN IF i + 3 <= Len(tokens) /\ IsWord(tokens[i + 3])
         THEN Match(<<Chars(tokens[i].text), Chars(tokens[i + 2].text),
                      Chars(tokens[i + 3].text)>>, i + 3)
         ELSE Match(<<Chars(tokens[i].text), Chars(tokens[i + 2].text), <<>>>>, i + 2)
    ELSE None

\* the tail  (\d+(?:\.\d+)?)\s*[-to]\s*(\d+(?:\.\d+)?)\s*(\w+)?  starting at token j
RangeTail(tokens, name, j) ==
    IF /\ j + 2 <= Len(tokens)
       /\ IsNumber(tokens[j]) /\ tokens[j + 1] = Dash /\ IsNumber(tokens[j + 2])
    THEN IF j + 3 <= Len(tokens) /\ IsWord(tokens[j + 3])
         THEN Match(<<name, Chars(tokens[j].text), Chars(tokens[j + 2].text),
                      Chars(tokens[j + 3].text)>>, j + 3)
         ELSE Match(<<name, Chars(tokens[j].text), Chars(tokens[j + 2].text), <<>>>>, j + 2)
    ELSE None

\* r"\b(\w+)\s+(?:range\s+)?(\d+(?:\.\d+)?)\s*[-to]\s*(\d+(?:\.\d+)?)\s*(\w+)?"
RangeValue(tokens, i) ==
    IF i <= Len(tokens) /\ IsWord(tokens[i])
    THEN LET name == Chars(tokens[i].text)
             with_range == IF /\ i + 1 <= Len(tokens) /\ tokens[i + 1].kind = "word"
                              /\ LowerText(tokens[i + 1]) = Chars("range")
                           THEN RangeTail(tokens, name, i + 2) ELSE None
         IN  IF with_range # None THEN with_range ELSE RangeTail(tokens, name, i + 1)
    ELSE None

StateWords ==
    {"temperature", "temp", "pressure", "speed", "rpm", "voltage", "current", "flowrate",
     "power", "efficiency", "displacement", "capacity", "torque", "vibration", "accuracy",
     "noise", "position", "charge", "fuel"}

\* r"\b(temperature|temp|pressure|speed|rpm|voltage|current|flow\s*rate|power|...|fuel)\b"
SimpleMention(tokens, i) ==
    IF tokens[i].kind # "word" THEN None
    ELSE IF \E w \in StateWords : LowerText(tokens[i]) = Chars(w)
    THEN Match(<<Chars(tokens[i].text)>>, i)
    ELSE IF /\ LowerText(tokens[i]) = Chars("flow")
            /\ i + 1 <= Len(tokens) /\ tokens[i + 1].kind = "word"
            /\ LowerText(tokens[i + 1]) = Chars("rate")
    THEN Match(<<Chars(tokens[i].text) \o <<" ">> \o Chars(tokens[i + 1].text)>>, i + 1)
    ELSE None

\* r"\b(\d+(?:\.\d+)?)\s*([A-Z]{1,4}|hp|bhp|kw|psi|bar|gpm|lpm|cfm|hz|khz|mhz)\b"
TechnicalSpec(tokens, i) ==
    IF /\ i + 1 <= Len(tokens)
       /\ IsNumber(tokens[i]) /\ tokens[i + 1].kind = "word"
       /\ Len(Chars(tokens[i + 1].text)) <= 4
       /\ \A c \in Range(Chars(tokens[i + 1].text)) : IsLetter(c)
    THEN Match(<<Chars(tokens[i].text), Chars(tokens[i + 1].text)>>, i + 1)
    ELSE None

\* r"\b(?:max|min|rated|operating|nominal)\s+(\w+)"
PerformanceSpec(tokens, i) ==
    IF /\ i + 1 <= Len(tokens)
       /\ tokens[i].kind = "word"
       /\ \E w \in {"max", "min", "rated", "operating", "nominal"} : LowerText(tokens[i]) = Chars(w)
       /\ IsWord(tokens[i + 1])
    THEN Match(<<Chars(tokens[i + 1].text)>>, i + 1)
    ELSE None

\* state_patterns, in the order of the list
MatchAt(pattern, tokens, i) ==
    CASE pattern = 1 -> ExplicitValue(tokens, i)
      [] pattern = 2 -> RangeValue(tokens, i)
      [] pattern = 3 -> SimpleMention(tokens, i)
      [] pattern = 4 -> TechnicalSpec(tokens, i)
      [] pattern = 5 -> PerformanceSpec(tokens, i)

\* re.finditer: the matches from left to right, each scan resuming after
\* the previous match
RECURSIVE FindIter(_, _, _)
FindIter(pattern, tokens, i) ==
    IF i > Len(tokens) THEN <<>>
    ELSE LET m == MatchAt(pattern, tokens, i)
         IN  IF m = None THEN FindIter(pattern, tokens, i + 1)
             ELSE <<m[1].groups>> \o FindIter(pattern, tokens, m[1].last + 1)

\* s.replace('.', '').isdigit()
IsDigitStr(s) ==
    LET d == SelectSeq(s, LAMBDA c : c # ".")
    IN  d # <<>> /\ \A c \in Range(d) : c \in Range(Digit)

DigitVal(c) == CHOOSE n \in 0..9 : Digit[n + 1] = c

RECURSIVE ParseInt(_)
ParseInt(s) ==
    IF s = <<>> THEN 0 ELSE ParseInt(SubSeq(s, 1, Len(s) - 1)) * 10 + DigitVal(s[Len(s)])

\* float() of an integer literal, in hundredths
Float(s) == ParseInt(s) * 100

\* group.lower().replace(' ', '_')
StateName(group) == [i \in 1..Len(group) |-> IF group[i] = " " THEN "_" ELSE LowerChar(group[i])]

Has(p, s) == IsSubstr(Chars(p), s)

\* the values given to states that are mentioned without one
Defaults ==
    ("temperature" :> 9000) @@ ("temp" :> 9000) @@ ("pressure" :> 10000)
    @@ ("rpm" :> 180000) @@ ("speed" :> 180000) @@ ("voltage" :> 1200) @@ ("current" :> 500)
    @@ ("flow_rate" :> 1000) @@ ("power" :> 20000) @@ ("power_output" :> 20000)
    @@ ("efficiency" :> 85) @@ ("displacement" :> 350000) @@ ("capacity" :> 10000)
    @@ ("torque" :> 30000) @@ ("vibration" :> 10) @@ ("accuracy" :> 95) @@ ("noise" :> 1)
    @@ ("position" :> 5000) @@ ("charge" :> 8000) @@ ("fuel" :> 5000)

\* first branch: the second group is a number
ExplicitBranch(states, groups) ==
    LET name == StateName(groups[1])
        unit == IF Len(groups) > 2 /\ groups[3] # <<>> THEN Lower(groups[3]) ELSE <<>>
    IN  IF Has("hp", unit) \/ Has("bhp", unit)
        THEN Update(states, "power_output" :> Float(groups[2]))
        ELSE IF Has("psi", unit) \/ Has("bar", unit)
        THEN Update(states, "pressure" :> Float(groups[2]))
        ELSE IF Has("gpm", unit) \/ Has("lpm", unit) \/ Has("cfm", unit)
        THEN Update(states, "flow_rate" :> Float(groups[2]))
        ELSE IF Has("l", unit) /\ Has("displacement", name)
        THEN Update(states, "displacement" :> Float(groups[2]) * 1000)
        ELSE Update(states, Str(name) :> Float(groups[2]))

\* second branch: the midpoint of a range with its two ends
RangeBranch(states, groups) ==
    LET name == StateName(groups[1])
    IN  Update(states,
               (Str(name) :> (Float(groups[2]) + Float(groups[3])) \div 2)
               @@ (Str(name \o <<"_", "m", "i", "n">>) :> Float(groups[2]))
               @@ (Str(name \o <<"_", "m", "a", "x">>) :> Float(groups[3])))

\* third branch: a number followed by a unit
TechnicalBranch(states, groups) ==
    LET unit == Lower(groups[2])
    IN  IF \E w \in {"hp", "bhp", "kw"} : unit = Chars(w)
        THEN Update(states, "power_output" :> Float(groups[1]))
        ELSE IF \E w \in {"psi", "bar"} : unit = Chars(w)
        THEN Update(states, "pressure" :> Float(groups[1]))
        ELSE IF \E w \in {"gpm", "lpm", "cfm"} : unit = Chars(w)
        THEN Update(states, "flow_rate" :> Float(groups[1]))
        ELSE IF unit = Chars("l") /\ "displacement" \notin DOMAIN states
        THEN Update(states, "displacement" :> Float(groups[1]) * 1000)
        ELSE states

\* last branch: a state named without a value gets its default
SimpleBranch(states, groups) ==
    LET name == StateName(groups[1])
    IN  IF \E k \in DOMAIN Defaults : Chars(k) = name
        THEN Update(states, Str(name) :> Defaults[Str(name)])
        ELSE states

\* the if/elif chain run on every match
ApplyMatch(states, groups) ==
    IF Len(groups) >= 2 /\ groups[2] # <<>> /\ IsDigitStr(groups[2])
    THEN ExplicitBranch(states, groups)
    ELSE IF Len(groups) >= 3 /\ groups[2] # <<>> /\ groups[3] # <<>>
    THEN RangeBranch(states, groups)
    ELSE IF Len(groups) >= 2 /\ IsDigitStr(groups[1])
    THEN TechnicalBranch(states, groups)
    ELSE SimpleBranch(states, groups)

RECURSIVE ApplyMatches(_, _)
ApplyMatches(states, matches) ==
    IF matches = <<>> THEN states
    ELSE ApplyMatches(ApplyMatch(states, Head(matches)), Tail(matches))

\* for pattern in state_patterns: for match in re.finditer(...)
RECURSIVE ScanPatterns(_, _, _)
ScanPatterns(states, tokens, pattern) ==
    IF pattern > 5 THEN states
    ELSE ScanPatterns(ApplyMatches(states, FindIter(pattern, tokens, 1)), tokens, pattern + 1)

extract_states(tokens) == ScanPatterns(EmptyDict, tokens, 1)

\* What one utterance says: whether it contains a generation trigger word,
\* the name, components and faults its text carries, and the tokens of the
\* text, which the state phase scans.  The utterances of a session either
\* carry one kind of fact (a name, one component, one state, one fault), or
\* describe a component in full, or name two components at once, or ask
\* for generation; two more are the turns of the smoke conversation of
\* test_cli.py.
Utt(g, n, c, t, f) ==
    [gen |-> g, system_name |-> n, components |-> c, text |-> t, faults |-> f]

\* "... rpm, temperature, pressure, flow rate, volume: 7 ... can leak"
FullText ==
    <<W("rpm"), Comma, W("temperature"), Comma, W("pressure"), Comma, W("flow"), W("rate"),
      Comma, W("volume"), Colon, N("7"), Semicolon, W("it"), W("can"), W("leak")>>

\* "Simple pump system with rpm and temperature states; faults: overheating"
SmokeFirst ==
    Utt(FALSE, "Simple pump", {"Pump"},
        <<W("Simple"), W("pump"), W("system"), W("with"), W("rpm"), W("and"),
          W("temperature"), W("states"), Semicolon, W("faults"), Colon, W("overheating")>>,
        {"overheating"})

\* "The pump has rpm: 1800, temperature: 25"
SmokeSecond ==
    Utt(FALSE, "The", {"Pump"},
        <<W("The"), W("pump"), W("has"), W("rpm"), Colon, N("1800"), Comma,
          W("temperature"), Colon, N("25")>>,
        {})

Utterances ==
    {Utt(FALSE, "G37", {}, <<W("G37"), W("system")>>, {}),
     Utt(FALSE, "", {"Valve"}, <<W("valve")>>, {}),
     Utt(FALSE, "", {}, <<W("pressure")>>, {}),
     Utt(FALSE, "", {}, <<W("volume"), Colon, N("9")>>, {}),
     Utt(FALSE, "", {}, <<W("can"), W("explode")>>, {"explosion"}),
     Utt(FALSE, "Simple pump", {"Engine"}, FullText, {"leak"}),
     Utt(FALSE, "Simple pump", {"Pump"}, FullText, {"leak"}),
     Utt(FALSE, "G37", {"Engine", "AcSystem"}, <<W("G37"), W("engine"), W("and"), W("ac"), W("system")>>, {}),
     Utt(TRUE, "G37", {"Valve"}, <<W("generate")>> \o FullText, {"leak"}),
     SmokeFirst, SmokeSecond}

(***************************************************************************)
(* analyze_input: the intent check comes first and returns the empty       *)
(* analysis; otherwise the extraction phases fill the record.  complist is *)
(* list(components), the component set in the order Python happens to list *)
(* it.  The analysis is a pure function of the text, so the state phase is *)
(* run once for every utterance of a session and looked up afterwards.     *)
(***************************************************************************)
\* Longest text given to analyze_input on its own.
MaxTokens == 4

ProbeTokens == {W("temperature"), W("volume"), Colon, Comma, Dash, N("7"), N("25")}

RECURSIVE TextsOfLength(_)
TextsOfLength(n) ==
    IF n = 0 THEN {<<>>}
    ELSE {Append(t, k) : t \in TextsOfLength(n - 1), k \in ProbeTokens}

\* the texts of at most longest tokens
ProbeTexts(longest) == UNION {TextsOfLength(n) : n \in 1..longest}

Texts == {u.text : u \in Utterances}

StatesOf == [t \in Texts |-> extract_states(t)]

\* the state phase on a text
StatesIn(text) == IF text \in Texts THEN StatesOf[text] ELSE extract_states(text)

\* mutation: no intent check, every utterance is analysed as a description
analyze_input_nointent(u, complist) ==
    [system_name |-> u.system_name, components |-> complist,
     states |-> StatesIn(u.text), faults |-> u.faults, intent |-> "describe"]

analyze_input(u, complist) ==
    IF u.gen
    THEN [system_name |-> "", components |-> <<>>, states |-> EmptyDict,
          faults |-> {}, intent |-> "generate"]
    ELSE [system_name |-> u.system_name, components |-> complist,
          states |-> StatesIn(u.text), faults |-> u.faults, intent |-> "describe"]

(***************************************************************************)
(* update_extracted_info.  extracted_info["components"] is a dict in       *)
(* insertion order: components is the mapping and order its key order.     *)
(* A fault list is extended by the merge and deduplicated at its end.      *)
(***************************************************************************)
\* mutation: a later candidate overwrites the name
SetSystemName_overwrite(current, candidate) ==
    IF candidate # "" THEN candidate ELSE current

SetSystemName(current, candidate) ==
    IF candidate # "" /\ current = "" THEN candidate ELSE current

\* mutation: a named component is registered afresh even when known
RegisterComponents_reset(components, complist) ==
    [c \in DOMAIN components \cup Range(complist) |->
        IF c \in Range(complist) THEN [states |-> EmptyDict, faults |-> <<>>]
        ELSE components[c]]

RegisterComponents(components, complist) ==
    [c \in DOMAIN components \cup Range(complist) |->
        IF c \in DOMAIN components THEN components[c]
        ELSE [states |-> EmptyDict, faults |-> <<>>]]

RegisterOrder(order, complist) ==
    order \o SelectSeq(complist, LAMBDA c : c \notin Range(order))

\* mutation: no affinity, every state goes to every registered component
StateTargets_broadcast(comps, state_name) == comps

\* the components that receive state state_name
StateTargets(comps, state_name) ==
    IF Cardinality(comps) = 1 THEN comps
    ELSE IF state_name \in {"temperature", "rpm"} /\ "Engine" \in comps THEN {"Engine"}
    ELSE IF state_name = "pressure" /\ \E c \in comps : IsSubstr(Chars("Ac"), Chars(c))
         THEN {c \in comps : IsSubstr(Chars("Ac"), Chars(c))}
    ELSE comps

\* the components that receive fault fault
FaultTargets(comps, fault) ==
    IF Cardinality(comps) = 1 THEN comps
    ELSE IF fault \in {"explosion", "combustion", "mechanical_failure"} /\ "Engine" \in comps
         THEN {"Engine"}
    ELSE comps

\* mutation: a recorded value is kept when the record carries the state again
MergeStates_keep(comp, old, comps, states) ==
    Update([k \in {x \in DOMAIN states : comp \in StateTargets(comps, x)} |-> states[k]], old)

\* mutation: the routed states replace the mapping instead of updating it
MergeStates_replace(comp, old, comps, states) ==
    IF \E x \in DOMAIN states : comp \in StateTargets(comps, x)
    THEN [k \in {x \in DOMAIN states : comp \in StateTargets(comps, x)} |-> states[k]]
    ELSE old

MergeStates(comp, old, comps, states) ==
    Update(old, [k \in {x \in DOMAIN states : comp \in StateTargets(comps, x)} |-> states[k]])

\* comp_info["faults"] = list(set(comp_info["faults"]))
Dedup(faults) == ListOf(Range(faults))

\* the faults of the record that are appended to the list of comp
Routed(comp, comps, faults) ==
    SelectSeq(ListOf(faults), LAMBDA f : comp \in FaultTargets(comps, f))

\* mutation: the faults of the record replace the recorded ones
MergeFaults_replace(comp, old, comps, faults) ==
    Dedup(Routed(comp, comps, faults))

\* mutation: the list is extended and never deduplicated
MergeFaults_nodedup(comp, old, comps, faults) ==
    old \o Routed(comp, comps, faults)

MergeFaults(comp, old, comps, faults) ==
    Dedup(old \o Routed(comp, comps, faults))

\* mutation: the states and faults are distributed before the components
\* of the record are registered
update_extracted_info_statesfirst(info, analysis) ==
    LET registered == RegisterComponents(info.components, analysis.components)
        comps == DOMAIN info.components
    IN  [system_name |-> SetSystemName(info.system_name, analysis.system_name),
         order |-> RegisterOrder(info.order, analysis.components),
         components |->
            [c \in DOMAIN registered |->
                [states |-> MergeStates(c, registered[c].states, comps, analysis.states),
                 faults |-> MergeFaults(c, registered[c].faults, comps, analysis.faults)]],
         states |-> info.states,
         faults |-> info.faults]

\* mutation: states that find no component are kept in the top-level mapping
update_extracted_info_pending(info, analysis) ==
    LET registered == RegisterComponents(info.components, analysis.components)
        comps == DOMAIN registered
    IN  [system_name |-> SetSystemName(info.system_name, analysis.system_name),
         order |-> RegisterOrder(info.order, analysis.components),
         components |->
            [c \in comps |->
                [states |-> MergeStates(c, registered[c].states, comps, analysis.states),
                 faults |-> MergeFaults(c, registered[c].faults, comps, analysis.faults)]],
         states |-> IF comps = {} THEN Update(info.states, analysis.states) ELSE info.states,
         faults |-> info.faults]

\* the top-level "states" and "faults" entries of extracted_info are set to
\* {} by __init__ and never written
update_extracted_info(info, analysis) ==
    LET registered == RegisterComponents(info.components, analysis.components)
        comps == DOMAIN registered
    IN  [system_name |-> SetSystemName(info.system_name, analysis.system_name),
         order |-> RegisterOrder(info.order, analysis.components),
         components |->
            [c \in comps |->
                [states |-> MergeStates(c, registered[c].states, comps, analysis.states),
                 faults |-> MergeFaults(c, registered[c].faults, comps, analysis.faults)]],
         states |-> info.states,
         faults |-> info.faults]

(***************************************************************************)
(* build_spec and its helpers.  A LevelSpec is kept as its name, its       *)
(* functions (name, states, faults, modes), its flow names and the         *)
(* architecture's function list and connections; descriptions are text     *)
(* only and left out.                                                      *)
(***************************************************************************)
\* mutation: a default replaces the recorded value of its key
FillMissing_overwrite(states, defaults) == Update(states, defaults)

\* fill the keys of defaults that states does not have
FillMissing(states, defaults) == Update(defaults, states)

Only(cond, defaults) == IF cond THEN defaults ELSE EmptyDict

CategoryDefaults(comp_name, enhanced) ==
    IF InLower("engine", comp_name) \/ InLower("motor", comp_name)
    THEN ("rpm" :> 180000) @@ ("temperature" :> 9000)
         @@ Only(\A k \in DOMAIN enhanced : ~InLower("fuel", k), "fuel_level" :> 5000)
         @@ ("oil_pressure" :> 4000) @@ ("power_output" :> 20000)
    ELSE IF InLower("ac", comp_name) \/ InLower("air", comp_name) \/ InLower("climate", comp_name)
    THEN ("temperature" :> 2200) @@ ("pressure" :> 25000) @@ ("flow_rate" :> 1500)
         @@ ("power_consumption" :> 250000)
    ELSE IF InLower("battery", comp_name) \/ InLower("electrical", comp_name)
    THEN ("voltage" :> 1260) @@ ("current" :> 0) @@ ("charge_level" :> 8000)
         @@ ("temperature" :> 2500)
    ELSE IF InLower("pump", comp_name) \/ InLower("hydraulic", comp_name)
    THEN ("pressure" :> 10000) @@ ("flow_rate" :> 1000) @@ ("temperature" :> 4000)
         @@ ("vibration" :> 10)
    ELSE IF InLower("valve", comp_name) \/ InLower("control", comp_name)
    THEN ("position" :> 5000) @@ ("pressure_drop" :> 1000) @@ ("flow_coefficient" :> 100)
    ELSE IF InLower("sensor", comp_name)
    THEN ("reading" :> 100) @@ ("accuracy" :> 95) @@ ("noise_level" :> 1)
    ELSE ("temperature" :> 2500)
         @@ Only(\E w \in {"flow", "fluid", "gas", "liquid"} : InLower(w, comp_name),
                 ("pressure" :> 10000) @@ ("flow_rate" :> 500))
         @@ Only(\E w \in {"compressor", "fan", "heater", "cooler"} : InLower(w, comp_name),
                 "power_consumption" :> 100000)

enhance_states(comp_name, states) ==
    LET enhanced == FillMissing(states, ("efficiency" :> 85) @@ ("status" :> 100))
    IN  FillMissing(enhanced, CategoryDefaults(comp_name, enhanced))

\* mutation: ElectricalPower is emitted for Battery only
create_realistic_flows_battery(component_names) ==
    (IF "Engine" \in Range(component_names)
     THEN <<"FuelFlow", "ExhaustFlow", "CoolantFlow">> ELSE <<>>)
    \o (IF \E i \in 1..Len(component_names) :
              \/ IsSubstr(Chars("Ac"), Chars(component_names[i]))
              \/ IsSubstr(Chars("Air"), Chars(component_names[i]))
        THEN <<"RefrigerantFlow", "AirFlow">> ELSE <<>>)
    \o (IF "Battery" \in Range(component_names) THEN <<"ElectricalPower">> ELSE <<>>)

create_realistic_flows(component_names) ==
    (IF "Engine" \in Range(component_names)
     THEN <<"FuelFlow", "ExhaustFlow", "CoolantFlow">> ELSE <<>>)
    \o (IF \E i \in 1..Len(component_names) :
              \/ IsSubstr(Chars("Ac"), Chars(component_names[i]))
              \/ IsSubstr(Chars("Air"), Chars(component_names[i]))
        THEN <<"RefrigerantFlow", "AirFlow">> ELSE <<>>)
    \o (IF "Battery" \in Range(component_names) \/ "Engine" \in Range(component_names)
        THEN <<"ElectricalPower">> ELSE <<>>)

Conn(a, b, f) == [from_fn |-> a, to_fn |-> b, flow_name |-> f]

\* mutation: the connection to Battery is made whether or not Battery is a function
RECURSIVE EngineConnections_unchecked(_, _)
EngineConnections_unchecked(component_names, flow_names) ==
    IF flow_names = <<>> THEN <<>>
    ELSE (IF Head(flow_names) \in {"FuelFlow", "CoolantFlow"}
          THEN <<Conn("Engine", "Engine", Head(flow_names))>>
          ELSE IF Head(flow_names) = "ElectricalPower"
          THEN <<Conn("Engine", "Battery", "ElectricalPower")>>
          ELSE <<>>)
         \o EngineConnections_unchecked(component_names, Tail(flow_names))

RECURSIVE EngineConnections(_, _)
EngineConnections(component_names, flow_names) ==
    IF flow_names = <<>> THEN <<>>
    ELSE (IF Head(flow_names) \in {"FuelFlow", "CoolantFlow"}
          THEN <<Conn("Engine", "Engine", Head(flow_names))>>
          ELSE IF Head(flow_names) = "ElectricalPower" /\ "Battery" \in Range(component_names)
          THEN <<Conn("Engine", "Battery", "ElectricalPower")>>
          ELSE <<>>)
         \o EngineConnections(component_names, Tail(flow_names))

create_realistic_connections(component_names, flow_names) ==
    IF flow_names = <<>> THEN <<>>
    ELSE LET ac_components ==
                 SelectSeq(component_names,
                           LAMBDA n : IsSubstr(Chars("Ac"), Chars(n)) \/ IsSubstr(Chars("Air"), Chars(n)))
         IN  (IF "Engine" \in Range(component_names)
              THEN EngineConnections(component_names, flow_names) ELSE <<>>)
             \o (IF ac_components # <<>> /\ "RefrigerantFlow" \in Range(flow_names)
                 THEN [i \in 1..Len(ac_components) |->
                          Conn(ac_components[i], ac_components[i], "RefrigerantFlow")]
                 ELSE <<>>)

\* mutation: every component becomes a function, with or without facts
FunctionComponents_all(info) == info.order

\* the components that become functions, in the order of the dict
FunctionComponents(info) ==
    SelectSeq(info.order,
              LAMBDA c : \/ DOMAIN info.components[c].states # {}
                         \/ info.components[c].faults # <<>>)

\* build_spec after its first check
BuildFunctions(info) ==
    LET kept == FunctionComponents(info)
        functions == [i \in 1..Len(kept) |->
                         [name |-> kept[i],
                          states |-> enhance_states(kept[i], info.components[kept[i]].states),
                          faults |-> info.components[kept[i]].faults,
                          modes |-> <<"nominal", "degraded", "failed">>]]
        flows == create_realistic_flows(kept)
    IN  IF functions = <<>> THEN None
        ELSE Some([name |-> Str(sanitize_identifier(Chars(info.system_name))),
                   functions |-> functions,
                   flows |-> flows,
                   architecture |-> [functions |-> kept,
                                     connections |-> create_realistic_connections(kept, flows)]])

\* mutation: a KnowledgeBase without a system name is built under the default name
build_spec_unnamed(info) ==
    IF DOMAIN info.components = {} THEN None ELSE BuildFunctions(info)

build_spec(info) ==
    IF info.system_name = "" \/ DOMAIN info.components = {} THEN None
    ELSE BuildFunctions(info)

(***************************************************************************)
(* is_ready and get_missing_info                                           *)
(***************************************************************************)
\* mutation: an engine passes with either of its two signals
CategoryReady_either(comp_name, states) ==
    IF InLower("engine", comp_name) \/ InLower("motor", comp_name)
    THEN AnyIn({"rpm", "speed"}, states) \/ AnyIn({"temperature", "temp"}, states)
    ELSE IF InLower("pump", comp_name) \/ InLower("hydraulic", comp_name)
    THEN AnyIn({"pressure"}, states) /\ AnyIn({"flow", "rate"}, states)
    ELSE IF InLower("wind", comp_name) \/ InLower("turbine", comp_name)
    THEN AnyIn({"speed", "rpm", "power"}, states)
    ELSE IF InLower("battery", comp_name)
    THEN AnyIn({"voltage", "charge"}, states)
    ELSE TRUE

CategoryReady(comp_name, states) ==
    IF InLower("engine", comp_name) \/ InLower("motor", comp_name)
    THEN AnyIn({"rpm", "speed"}, states) /\ AnyIn({"temperature", "temp"}, states)
    ELSE IF InLower("pump", comp_name) \/ InLower("hydraulic", comp_name)
    THEN AnyIn({"pressure"}, states) /\ AnyIn({"flow", "rate"}, states)
    ELSE IF InLower("wind", comp_name) \/ InLower("turbine", comp_name)
    THEN AnyIn({"speed", "rpm", "power"}, states)
    ELSE IF InLower("battery", comp_name)
    THEN AnyIn({"voltage", "charge"}, states)
    ELSE TRUE

\* mutation: the states are counted after enrichment with defaults
ComponentReady_enhanced(comp_name, comp_info) ==
    /\ Cardinality(DOMAIN enhance_states(comp_name, comp_info.states)) >= MinStates
    /\ comp_info.faults # <<>>
    /\ CategoryReady(comp_name, comp_info.states)

ComponentReady(comp_name, comp_info) ==
    /\ Cardinality(DOMAIN comp_info.states) >= MinStates
    /\ comp_info.faults # <<>>
    /\ CategoryReady(comp_name, comp_info.states)

is_ready(sp, info) ==
    IF sp = None \/ sp[1].functions = <<>> THEN FALSE
    ELSE \A c \in DOMAIN info.components : ComponentReady(c, info.components[c])

\* the items get_missing_info joins into one sentence, in order
get_missing_info(info) ==
    LET needing_states == SelectSeq(info.order, LAMBDA c : DOMAIN info.components[c].states = {})
        needing_faults == SelectSeq(info.order, LAMBDA c : info.components[c].faults = <<>>)
    IN  (IF info.system_name = "" THEN <<[item |-> "system name", of |-> <<>>]>> ELSE <<>>)
        \o (IF DOMAIN info.components = {} THEN <<[item |-> "components", of |-> <<>>]>>
            ELSE (IF needing_states # <<>>
                  THEN <<[item |-> "states for", of |-> needing_states]>> ELSE <<>>)
                 \o (IF needing_faults # <<>>
                     THEN <<[item |-> "fault modes for", of |-> needing_faults]>> ELSE <<>>))

(***************************************************************************)
(* __init__ and _load_from_xml.  A diagram is the list of names of its     *)
(* elements tagged function or component; no file, an unreadable file or a *)
(* diagram without such elements leaves spec at None.                      *)
(***************************************************************************)
XmlDiagrams == {<<>>, <<"pump">>}

load_from_xml(stem, elements) ==
    LET names == [i \in 1..Len(elements) |-> Str(sanitize_class_name(Chars(elements[i])))]
    IN  IF names = <<>> THEN None
        ELSE Some([name |-> Str(sanitize_identifier(Chars(stem))),
                   functions |-> [i \in 1..Len(names) |->
                                     [name |-> names[i], states |-> EmptyDict,
                                      faults |-> <<>>, modes |-> <<"nominal">>]],
                   flows |-> <<>>,
                   architecture |-> [functions |-> names, connections |-> <<>>]])

VARIABLES
    xml_file,              \* the diagram given to __init__ (<<>> when there is none)
    spec,                  \* self.spec
    last_spec,             \* self.last_spec
    conversation_history,  \* self.conversation_history
    extracted_info,        \* self.extracted_info: system_name, components (with their
                           \* key order) and the top-level states and faults entries
    pc,                    \* main(): "running" inside the loop; after it, "done" when the
                           \* model was generated and "goodbye" when the session was ended
    response,              \* what the last process_input() returned, or the request to
                           \* rephrase when it raised
    rendered,              \* one entry per render_level() call: was is_ready() true
    turn                   \* the last process_input() call: its input and the state it started from

vars == <<xml_file, spec, last_spec, conversation_history, extracted_info, pc, response, rendered, turn>>

NoAnalysis ==
    [system_name |-> "", components |-> <<>>, states |-> EmptyDict,
     faults |-> {}, intent |-> "none"]

Init ==
    /\ xml_file \in XmlDiagrams
    /\ spec = load_from_xml("diagram", xml_file)
    /\ last_spec = None
    /\ conversation_history = <<>>
    /\ extracted_info = [system_name |-> "", order |-> <<>>, components |-> EmptyDict,
                         states |-> EmptyDict, faults |-> EmptyDict]
    /\ pc = "running"
    /\ response = [kind |-> "none", missing |-> <<>>, diff |-> <<>>]
    /\ rendered = <<>>
    /\ turn = [utterance |-> Utt(FALSE, "", {}, <<>>, {}), analysis |-> NoAnalysis,
               info |-> extracted_info, spec |-> spec, last_spec |-> last_spec,
               history |-> <<>>, ready |-> FALSE]

\* the changes get_diff lists for the functions of a specification
RECURSIVE FunctionChanges(_)
FunctionChanges(functions) ==
    IF functions = <<>> THEN <<>>
    ELSE LET func == Head(functions)
         IN  <<[added |-> "component", of |-> func.name]>>
             \o (IF DOMAIN func.states # {}
                 THEN <<[added |-> "states", of |-> func.name]>> ELSE <<>>)
             \o (IF func.faults # <<>>
                 THEN <<[added |-> "faults", of |-> func.name]>> ELSE <<>>)
             \o FunctionChanges(Tail(functions))

\* get_diff on self.spec and self.last_spec: the list of changes it joins
get_diff(sp, last) ==
    IF last = None /\ sp # None
    THEN (IF sp[1].name # "" THEN <<[added |-> "name", of |-> sp[1].name]>> ELSE <<>>)
         \o FunctionChanges(sp[1].functions)
    ELSE <<>>

\* core.render_level is called: the log notes whether is_ready() held
render_level(sp, info, log) == Append(log, is_ready(sp, info))

\* generate_files: render_level runs only behind the readiness check
generate_files(sp, info, log) ==
    IF ~is_ready(sp, info) THEN log ELSE render_level(sp, info, log)

\* mutation: the signal is returned without the readiness check
GenerateResponse_unchecked(sp, info) ==
    [kind |-> "READY_TO_GENERATE", missing |-> <<>>, diff |-> <<>>]

\* process_input on a generate intent: the signal, or the refusal with what is missing
GenerateResponse(sp, info) ==
    IF is_ready(sp, info) THEN [kind |-> "READY_TO_GENERATE", missing |-> <<>>, diff |-> <<>>]
    ELSE [kind |-> "cannot generate", missing |-> get_missing_info(info), diff |-> <<>>]

\* mutation: generation requests are not kept in the history
AppendUtterance_described(history, u) == IF u.gen THEN history ELSE Append(history, u)

\* self.conversation_history.append(user_input)
AppendUtterance(history, u) == Append(history, u)

\* mutation: the first specification built is kept and never replaced
AdoptSpec_once(new_spec, current) == IF current = None THEN new_spec ELSE current

\* self.spec after "if new_spec: ... self.spec = new_spec"
AdoptSpec(new_spec, current) == IF new_spec # None THEN new_spec ELSE current

\* self.last_spec after "if new_spec: self.last_spec = self.spec"
RetainSpec(new_spec, current, last) == IF new_spec # None THEN current ELSE last

Started(u, analysis) ==
    [utterance |-> u, analysis |-> analysis, info |-> extracted_info, spec |-> spec,
     last_spec |-> last_spec, history |-> conversation_history,
     ready |-> is_ready(spec, extracted_info)]

\* main's last branch with an utterance whose analysis has intent generate:
\* process_input answers without touching knowledge, and main renders and
\* leaves the loop on the signal.
ProcessGenerate(u) ==
    /\ pc = "running"
    /\ Len(conversation_history) < MaxTurns
    /\ \E complist \in Orderings(u.components) :
          LET analysis == analyze_input(u, complist)
              answer == GenerateResponse(spec, extracted_info)
          IN  /\ analysis.intent = "generate"
              /\ conversation_history' = AppendUtterance(conversation_history, u)
              /\ turn' = Started(u, analysis)
              /\ response' = answer
              /\ IF answer.kind = "READY_TO_GENERATE"
                 THEN /\ rendered' = generate_files(spec, extracted_info, rendered)
                      /\ pc' = "done"
                 ELSE UNCHANGED <<rendered, pc>>
              /\ UNCHANGED <<xml_file, spec, last_spec, extracted_info>>

\* main's last branch with a describing utterance: process_input hands the
\* analysis to generate_intelligent_response, which merges it, rebuilds the
\* specification and keeps the previous one when the build succeeds.
ProcessDescribe(u) ==
    /\ pc = "running"
    /\ Len(conversation_history) < MaxTurns
    /\ \E complist \in Orderings(u.components) :
          LET analysis == analyze_input(u, complist)
              info == update_extracted_info(extracted_info, analysis)
              new_spec == build_spec(info)
          IN  /\ analysis.intent # "generate"
              /\ conversation_history' = AppendUtterance(conversation_history, u)
              /\ turn' = Started(u, analysis)
              /\ extracted_info' = info
              /\ last_spec' = RetainSpec(new_spec, spec, last_spec)
              /\ spec' = AdoptSpec(new_spec, spec)
              /\ response' = [kind |-> "describe", missing |-> <<>>,
                               diff |-> IF new_spec # None THEN get_diff(new_spec, spec)
                                        ELSE get_diff(spec, last_spec)]
              /\ UNCHANGED <<xml_file, rendered, pc>>

\* mutation: the extraction phases write into the KnowledgeBase as they go
AfterRaise_written(info, partial) == update_extracted_info(info, partial)

\* extracted_info when analyze_input raises: the phases fill the local
\* record analysis, which is dropped with the exception
AfterRaise(info, partial) == info

\* the turns in which analyze_input is made to raise
Raising == {SmokeFirst, SmokeSecond}

\* main's last branch when analyze_input raises an Exception (no text was
\* found that makes it raise, so the error comes from the runtime, such as
\* a MemoryError in the state phase): process_input has appended the
\* utterance, the name and component phases have filled the local record,
\* and main prints the error, asks to rephrase and reads the next line.
ProcessRaises(u) ==
    /\ pc = "running"
    /\ Len(conversation_history) < MaxTurns
    /\ ~u.gen
    /\ \E complist \in Orderings(u.components) :
          LET partial == [system_name |-> u.system_name, components |-> complist,
                          states |-> EmptyDict, faults |-> {}, intent |-> "raised"]
          IN  /\ conversation_history' = AppendUtterance(conversation_history, u)
              /\ turn' = Started(u, partial)
              /\ extracted_info' = AfterRaise(extracted_info, partial)
              /\ response' = [kind |-> "rephrase", missing |-> <<>>, diff |-> <<>>]
              /\ UNCHANGED <<xml_file, spec, last_spec, rendered, pc>>

\* main on the input "generate": render and leave the loop when ready
MainGenerate ==
    /\ pc = "running"
    /\ IF is_ready(spec, extracted_info)
       THEN /\ rendered' = generate_files(spec, extracted_info, rendered)
            /\ pc' = "done"
       ELSE UNCHANGED <<rendered, pc>>
    /\ UNCHANGED <<xml_file, spec, last_spec, conversation_history, extracted_info, response, turn>>

\* mutation: quitting saves the model that is ready
MainQuit_saving ==
    /\ pc = "running"
    /\ pc' = "goodbye"
    /\ rendered' = generate_files(spec, extracted_info, rendered)
    /\ UNCHANGED <<xml_file, spec, last_spec, conversation_history, extracted_info, response, turn>>

\* main on "quit", "exit" or "q": the farewell and the break
MainQuit ==
    /\ pc = "running"
    /\ pc' = "goodbye"
    /\ UNCHANGED <<xml_file, spec, last_spec, conversation_history, extracted_info, response, rendered, turn>>

\* main on EOFError or KeyboardInterrupt raised by input()
MainInterrupt ==
    /\ pc = "running"
    /\ pc' = "goodbye"
    /\ UNCHANGED <<xml_file, spec, last_spec, conversation_history, extracted_info, response, rendered, turn>>

\* main on an empty line, "help" or "status": printing only
MainPrintOnly ==
    /\ pc = "running"
    /\ UNCHANGED vars

Next ==
    \/ \E u \in Utterances : ProcessGenerate(u)
    \/ \E u \in Utterances : ProcessDescribe(u)
    \/ MainGenerate
    \/ MainQuit
    \/ MainInterrupt
    \/ MainPrintOnly

Spec == Init /\ [][Next]_vars

\* the session when the runtime may fail a turn during its analysis
NextFaulty ==
    \/ Next
    \/ \E u \in Raising : ProcessRaises(u)

SpecFaulty == Init /\ [][NextFaulty]_vars

(***************************************************************************)
(* build_spec on its own: a builder whose KnowledgeBase holds any system   *)
(* name, any components in any insertion order, and for each component any *)
(* of a few state mappings and fault lists that turns can record.          *)
(***************************************************************************)
BuildVocab == {"Engine", "Battery", "AcSystem", "Pump"}

\* nothing, or what "temperature, 25 psi, status: 7" records
StateChoices ==
    {EmptyDict, ("temperature" :> 9000) @@ ("pressure" :> 2500) @@ ("status" :> 700)}

FaultChoices == {<<>>, <<"leak">>}

KnowledgeBases(vocabulary) ==
    UNION {{[system_name |-> n, order |-> o, components |-> cs,
              states |-> EmptyDict, faults |-> EmptyDict] :
                n \in {"", "G37"},
                cs \in [Range(o) -> [states : StateChoices, faults : FaultChoices]]} :
           o \in UNION {Orderings(S) : S \in SUBSET vocabulary}}

InitBuild ==
    /\ xml_file = <<>>
    /\ spec = None
    /\ last_spec = None
    /\ conversation_history = <<>>
    /\ extracted_info \in KnowledgeBases(BuildVocab)
    /\ pc = "running"
    /\ response = [kind |-> "none", missing |-> <<>>, diff |-> <<>>]
    /\ rendered = <<>>
    /\ turn = [utterance |-> Utt(FALSE, "", {}, <<>>, {}), analysis |-> NoAnalysis,
               info |-> extracted_info, spec |-> None, last_spec |-> None,
               history |-> <<>>, ready |-> FALSE]

\* builder.spec = builder.build_spec()
BuildSpec ==
    /\ response.kind = "none"
    /\ spec' = build_spec(extracted_info)
    /\ response' = [kind |-> "built", missing |-> <<>>, diff |-> <<>>]
    /\ UNCHANGED <<xml_file, last_spec, conversation_history, extracted_info, pc, rendered, turn>>

NextBuild == BuildSpec

SpecBuild == InitBuild /\ [][NextBuild]_vars

(***************************************************************************)
(* analyze_input on its own: a fresh builder is handed one text.           *)
(***************************************************************************)
InitAnalyze ==
    /\ xml_file = <<>>
    /\ spec = None
    /\ last_spec = None
    /\ conversation_history = <<>>
    /\ extracted_info = [system_name |-> "", order |-> <<>>, components |-> EmptyDict,
                         states |-> EmptyDict, faults |-> EmptyDict]
    /\ pc = "running"
    /\ response = [kind |-> "none", missing |-> <<>>, diff |-> <<>>]
    /\ rendered = <<>>
    /\ \E t \in ProbeTexts(MaxTokens) :
          turn = [utterance |-> Utt(FALSE, "", {}, t, {}), analysis |-> NoAnalysis,
                  info |-> extracted_info, spec |-> None, last_spec |-> None,
                  history |-> <<>>, ready |-> FALSE]

\* builder.analyze_input(text): the builder itself is left as it was
AnalyzeInput ==
    /\ turn.analysis.intent = "none"
    /\ turn' = [turn EXCEPT !.analysis = analyze_input(turn.utterance, <<>>)]
    /\ UNCHANGED <<xml_file, spec, last_spec, conversation_history, extracted_info, pc,
                   response, rendered>>

NextAnalyze == AnalyzeInput

SpecAnalyze == InitAnalyze /\ [][NextAnalyze]_vars

(***************************************************************************)
(* is_ready on its own: a builder after the turns of a session that left   *)
(* it with any system name and up to MaxComponents components, each with   *)
(* one of a few state mappings and fault lists that turns can record; its  *)
(* specification is the one built from that KnowledgeBase.                 *)
(***************************************************************************)
\* Most components of a KnowledgeBase handed to is_ready on its own.
MaxComponents == 2

ReadyVocab == {"Engine", "Motor", "Pump", "Battery", "Valve"}

\* what "rpm, temperature, volume: 7", "pressure, flow rate, volume: 7",
\* "speed, temp, charge", "rpm, pressure, volume: 7",
\* "voltage, level: 3, volume: 7" and "rpm, temperature" record, with a
\* fault or without
Recorded ==
    LET leak == <<"leak">>
        Rec(st, fl) == [states |-> st, faults |-> fl]
    IN  {Rec(("rpm" :> 180000) @@ ("temperature" :> 9000) @@ ("volume" :> 700), leak),
         Rec(("pressure" :> 10000) @@ ("flow_rate" :> 1000) @@ ("volume" :> 700), leak),
         Rec(("speed" :> 180000) @@ ("temp" :> 9000) @@ ("charge" :> 8000), leak),
         Rec(("rpm" :> 180000) @@ ("pressure" :> 10000) @@ ("volume" :> 700), leak),
         Rec(("voltage" :> 1200) @@ ("level" :> 300) @@ ("volume" :> 700), leak),
         Rec(("rpm" :> 180000) @@ ("temperature" :> 9000), leak),
         Rec(("rpm" :> 180000) @@ ("temperature" :> 9000) @@ ("volume" :> 700), <<>>)}

\* is_ready does not read the order of the components: one order each
ReadyBases(most) ==
    UNION {{[system_name |-> n, order |-> ListOf(S), components |-> cs,
              states |-> EmptyDict, faults |-> EmptyDict] :
                n \in {"", "G37"}, cs \in [S -> Recorded]} :
           S \in {T \in SUBSET ReadyVocab : Cardinality(T) <= most}}

InitReady ==
    /\ xml_file = <<>>
    /\ extracted_info \in ReadyBases(MaxComponents)
    /\ spec = build_spec(extracted_info)
    /\ last_spec = None
    /\ conversation_history = <<>>
    /\ pc = "running"
    /\ response = [kind |-> "none", missing |-> <<>>, diff |-> <<>>]
    /\ rendered = <<>>
    /\ turn = [utterance |-> Utt(FALSE, "", {}, <<>>, {}), analysis |-> NoAnalysis,
               info |-> extracted_info, spec |-> spec, last_spec |-> None,
               history |-> <<>>, ready |-> FALSE]

\* builder.is_ready(): the verdict is kept in response
IsReady ==
    /\ response.kind = "none"
    /\ response' = [kind |-> IF is_ready(spec, extracted_info) THEN "ready" ELSE "not ready",
                    missing |-> <<>>, diff |-> <<>>]
    /\ UNCHANGED <<xml_file, spec, last_spec, conversation_history, extracted_info, pc,
                   rendered, turn>>

NextReady == IsReady

SpecReady == InitReady /\ [][NextReady]_vars


(***************************************************************************)
(* Properties.  turn holds the input of the last process_input() call and  *)
(* the state it started from, so each property below compares the state    *)
(* after a turn with the state before it.                                  *)
(***************************************************************************)
Described == turn.analysis.intent = "describe"

Before == turn.info.components

After == extracted_info.components

\* C1: once the system name is non-empty no merge changes it, and the first
\* non-empty name a record supplies is the one that is kept.
C1_SystemNameSetOnce ==
    /\ turn.info.system_name # "" => extracted_info.system_name = turn.info.system_name
    /\ (Described /\ turn.info.system_name = "" /\ turn.analysis.system_name # "")
          => extracted_info.system_name = turn.analysis.system_name

\* a merge offered a second, different name to a session that had one
C1_Witness ==
    /\ Described
    /\ turn.info.system_name # ""
    /\ turn.analysis.system_name \notin {"", turn.info.system_name}

\* C2: every component registered before a merge is registered after it, and
\* keeps every state name and every fault it had.
C2_Monotonic ==
    \A c \in DOMAIN Before :
        /\ c \in DOMAIN After
        /\ DOMAIN Before[c].states \subseteq DOMAIN After[c].states
        /\ Range(Before[c].faults) \subseteq Range(After[c].faults)

\* a merge named again a component that already had states and faults, and
\* carried states of its own
C2_Witness ==
    /\ Described
    /\ DOMAIN turn.analysis.states # {}
    /\ \E c \in Range(turn.analysis.components) :
          /\ c \in DOMAIN Before
          /\ DOMAIN Before[c].states # {}
          /\ Range(Before[c].faults) # {}

\* C3 as stated: every (component, state, value) recorded before a merge is
\* recorded with the same value after it.
C3_ValuesKept ==
    \A c \in DOMAIN Before : \A k \in DOMAIN Before[c].states :
        /\ c \in DOMAIN After
        /\ k \in DOMAIN After[c].states
        /\ After[c].states[k] = Before[c].states[k]

\* C3 amended: every (component, state) recorded before a merge is recorded
\* after it, with the value of the record when the record carries that state
\* and the distribution routes it to that component, and with its old value
\* otherwise.
C3_ValuesKeptUnlessSupplied ==
    \A c \in DOMAIN Before : \A k \in DOMAIN Before[c].states :
        /\ c \in DOMAIN After
        /\ k \in DOMAIN After[c].states
        /\ After[c].states[k] =
              IF k \in DOMAIN turn.analysis.states /\ c \in StateTargets(DOMAIN After, k)
              THEN turn.analysis.states[k] ELSE Before[c].states[k]

\* a merge gave a recorded state of one component a new value while another
\* component kept its value of a state the record did not route to it
C3_Witness ==
    /\ Described
    /\ \E c \in DOMAIN Before : \E k \in DOMAIN Before[c].states :
          /\ k \in DOMAIN turn.analysis.states
          /\ turn.analysis.states[k] # Before[c].states[k]
          /\ After[c].states[k] = turn.analysis.states[k]
    /\ \E c \in DOMAIN Before : \E k \in DOMAIN Before[c].states :
          k \notin DOMAIN turn.analysis.states

\* the record of the last turn names no new component and no new name
NothingNewNamed ==
    /\ Described
    /\ Range(turn.analysis.components) \subseteq DOMAIN Before
    /\ turn.analysis.system_name = "" \/ turn.info.system_name # ""

\* C4 as stated: a record whose components are registered, whose name adds
\* nothing, and whose state values and faults are each recorded somewhere in
\* the KnowledgeBase leaves the KnowledgeBase unchanged.
C4_Idempotent ==
    (/\ NothingNewNamed
     /\ \A k \in DOMAIN turn.analysis.states : \E c \in DOMAIN Before :
           k \in DOMAIN Before[c].states /\ Before[c].states[k] = turn.analysis.states[k]
     /\ \A f \in turn.analysis.faults : \E c \in DOMAIN Before : f \in Range(Before[c].faults))
    => extracted_info = turn.info

\* every fact of the record is already recorded at every component the
\* distribution routes it to
RecordedAtTargets ==
    /\ \A k \in DOMAIN turn.analysis.states : \A c \in StateTargets(DOMAIN Before, k) :
          k \in DOMAIN Before[c].states /\ Before[c].states[k] = turn.analysis.states[k]
    /\ \A f \in turn.analysis.faults : \A c \in FaultTargets(DOMAIN Before, f) :
          f \in Range(Before[c].faults)

\* C4 amended: a record whose components are registered, whose name adds
\* nothing, and whose state values and faults are each already recorded for
\* every component the distribution routes them to leaves the KnowledgeBase
\* unchanged.
C4_IdempotentAtTargets ==
    (NothingNewNamed /\ RecordedAtTargets) => extracted_info = turn.info

\* such a record, carrying a name, a component, states and a fault, was
\* merged into a KnowledgeBase with several components
C4_Witness ==
    /\ NothingNewNamed /\ RecordedAtTargets
    /\ Cardinality(DOMAIN Before) >= 2
    /\ turn.analysis.system_name # ""
    /\ turn.analysis.components # <<>>
    /\ DOMAIN turn.analysis.states # {}
    /\ turn.analysis.faults # {}

\* C5: when is_ready() holds and a record that names no new component is
\* merged, is_ready() holds right after the merge and at the end of the turn.
C5_ReadinessMonotonic ==
    (Described /\ turn.ready /\ Range(turn.analysis.components) \subseteq DOMAIN Before)
    => /\ is_ready(turn.spec, extracted_info)
       /\ is_ready(spec, extracted_info)

\* a ready session merged a record that added a fault to a component
C5_Witness ==
    /\ Described /\ turn.ready
    /\ Range(turn.analysis.components) \subseteq DOMAIN Before
    /\ \E c \in DOMAIN Before : \E f \in turn.analysis.faults :
          f \notin Range(Before[c].faults) /\ f \in Range(After[c].faults)

\* C6 as stated: once is_ready() holds it holds after every later turn; it is
\* stated here for the sessions that start without a diagram, where
\* readiness was reached through turns.
C6_ReadyForever ==
    (xml_file = <<>> /\ turn.ready) => is_ready(spec, extracted_info)

\* C6 amended: once is_ready() holds it holds after every later turn that
\* registers no new component.
C6_ReadyWhileNoNewComponent ==
    (turn.ready /\ DOMAIN After = DOMAIN Before) => is_ready(spec, extracted_info)

\* a ready session with two components took a describing turn that gave a
\* recorded state a new value and registered no component
C6_Witness ==
    /\ Described /\ turn.ready
    /\ DOMAIN After = DOMAIN Before
    /\ Cardinality(DOMAIN After) >= 2
    /\ \E c \in DOMAIN Before : \E k \in DOMAIN Before[c].states :
          After[c].states[k] # Before[c].states[k]

\* C7: a turn whose utterance contains a generation trigger word leaves the
\* name, the components with their states and faults, and the current and
\* previous specification as they were, and appends the utterance to the
\* history.
C7_GenerateTurnFrame ==
    turn.utterance.gen =>
        /\ extracted_info = turn.info
        /\ spec = turn.spec
        /\ last_spec = turn.last_spec
        /\ conversation_history = Append(turn.history, turn.utterance)

\* a generate turn whose utterance also carried a component, states and a fault
C7_Witness ==
    /\ turn.utterance.gen
    /\ turn.utterance.components # {}
    /\ DOMAIN extract_states(turn.utterance.text) # {}
    /\ turn.utterance.faults # {}
    /\ Len(conversation_history) >= 2

\* C8: process_input returns the ready-to-generate signal only on a
\* generate-intent turn that started with is_ready() true, and render_level is
\* only ever called with is_ready() true.
C8_GenerationGated ==
    /\ response.kind = "READY_TO_GENERATE" => (turn.analysis.intent = "generate" /\ turn.ready)
    /\ \A i \in 1..Len(rendered) : rendered[i]

\* the signal was returned and the renderer ran
C8_Witness ==
    /\ response.kind = "READY_TO_GENERATE"
    /\ Len(rendered) = 1
    /\ pc = "done"

\* C9: when building from the current KnowledgeBase yields none, is_ready()
\* is false.
C9_NotReadyWithoutBuild ==
    build_spec(extracted_info) = None => ~is_ready(spec, extracted_info)

C11_ScenarioA ==
    /\ (xml_file = <<>> /\ conversation_history = <<SmokeFirst>>)
          => ~is_ready(spec, extracted_info)
    /\ (xml_file = <<>> /\ conversation_history = <<SmokeFirst, SmokeSecond>>)
          => is_ready(spec, extracted_info)

(***************************************************************************)
(* C12.  Whenever an analysed text contains "X: n", whatever the name X    *)
(* (names that are state keywords included) and with no recognized unit    *)
(* behind n, the state mapping of the analysis holds the key derived from  *)
(* X with the value n.                                                     *)
(***************************************************************************)
C12_ExplicitValueExact ==
    LET tokens == turn.utterance.text
        states == turn.analysis.states
    IN  turn.analysis.intent = "describe" =>
            \A i \in 1..(Len(tokens) - 2) :
                (tokens[i].kind = "word" /\ tokens[i + 1] = Colon /\ tokens[i + 2].kind = "num")
                    => LET key == Str(StateName(Chars(tokens[i].text)))
                       IN  /\ key \in DOMAIN states
                           /\ states[key] = Float(Chars(tokens[i + 2].text))

(***************************************************************************)
(* The properties of build_spec are stated on the states of SpecBuild in   *)
(* which build_spec has run: spec is then its result for extracted_info.   *)
(***************************************************************************)
Built == response.kind = "built"

FunctionNames(sp) == {sp.functions[i].name : i \in 1..Len(sp.functions)}

\* the components of the KnowledgeBase with a recorded state or fault
Informed ==
    {c \in DOMAIN extracted_info.components :
        \/ DOMAIN extracted_info.components[c].states # {}
        \/ extracted_info.components[c].faults # <<>>}

(***************************************************************************)
(* C13.  build_spec returns None whenever the system name is empty or no   *)
(* component is registered, whatever else the KnowledgeBase holds.         *)
(***************************************************************************)
C13_NoneWithoutNameOrComponents ==
    (Built /\ (extracted_info.system_name = "" \/ DOMAIN extracted_info.components = {}))
        => spec = None

\* Scenario C: no name, a component with states and a fault, and no specification
C13_Witness ==
    /\ Built
    /\ extracted_info.system_name = ""
    /\ \E c \in Informed : /\ DOMAIN extracted_info.components[c].states # {}
                           /\ extracted_info.components[c].faults # <<>>
    /\ spec = None

(***************************************************************************)
(* C14.  Every specification build_spec returns has at least one function, *)
(* pairwise distinct function names, pairwise distinct flow names, and     *)
(* connections whose two ends are names of the function list.              *)
(***************************************************************************)
C14_StructuralInvariants ==
    (Built /\ spec # None) =>
        LET sp == spec[1]
        IN  /\ Len(sp.functions) >= 1
            /\ \A i, j \in 1..Len(sp.functions) :
                  i # j => sp.functions[i].name # sp.functions[j].name
            /\ \A i, j \in 1..Len(sp.flows) : i # j => sp.flows[i] # sp.flows[j]
            /\ \A k \in 1..Len(sp.architecture.connections) :
                  LET conn == sp.architecture.connections[k]
                  IN  /\ conn.from_fn \in FunctionNames(sp) /\ conn.to_fn \in FunctionNames(sp)
                      /\ conn.from_fn \in Range(sp.architecture.functions)
                      /\ conn.to_fn \in Range(sp.architecture.functions)

\* a specification wired from Engine to Battery, built while a component was left out
C14_Witness ==
    /\ Built /\ spec # None
    /\ Conn("Engine", "Battery", "ElectricalPower") \in Range(spec[1].architecture.connections)
    /\ DOMAIN extracted_info.components # Informed

(***************************************************************************)
(* C15.  The functions of a built specification are exactly the components *)
(* with at least one recorded state or fault, each once; when no component *)
(* has any, build_spec returns None.                                       *)
(***************************************************************************)
C15_FunctionsAreInformedComponents ==
    Built =>
        /\ Informed = {} => spec = None
        /\ spec # None =>
              /\ FunctionNames(spec[1]) = Informed
              /\ Len(spec[1].functions) = Cardinality(Informed)

\* a build that left out a component without facts and kept one with facts
C15_Witness ==
    /\ Built /\ spec # None
    /\ \E c \in DOMAIN extracted_info.components : c \notin FunctionNames(spec[1])
    /\ Cardinality(Informed) >= 2

(***************************************************************************)
(* C16.  Enrichment only fills missing keys: a built function holds every  *)
(* recorded state with its recorded value, and every other key it holds is *)
(* efficiency, status or a key of the first matching category, with the    *)
(* default value.                                                          *)
(***************************************************************************)
C16_EnrichmentFillsMissing ==
    (Built /\ spec # None) =>
        \A i \in 1..Len(spec[1].functions) :
            LET func == spec[1].functions[i]
                recorded == extracted_info.components[func.name].states
                common == ("efficiency" :> 85) @@ ("status" :> 100)
                category == CategoryDefaults(func.name, Update(common, recorded))
            IN  /\ \A k \in DOMAIN recorded :
                      k \in DOMAIN func.states /\ func.states[k] = recorded[k]
                /\ \A k \in DOMAIN func.states \ DOMAIN recorded :
                      IF k \in DOMAIN common THEN func.states[k] = common[k]
                      ELSE k \in DOMAIN category /\ func.states[k] = category[k]
                /\ DOMAIN func.states =
                      DOMAIN recorded \cup DOMAIN common \cup DOMAIN category

\* AcSystem recorded with a temperature, a pressure and a status that differ
\* from the defaults, and built with flow_rate filled in
C16_Witness ==
    /\ Built /\ spec # None
    /\ \E i \in 1..Len(spec[1].functions) :
          LET func == spec[1].functions[i]
          IN  /\ func.name = "AcSystem"
              /\ func.states["temperature"] = 9000 /\ func.states["status"] = 700
              /\ func.states["pressure"] = 2500 /\ func.states["flow_rate"] = 1500
              /\ func.states["efficiency"] = 85

(***************************************************************************)
(* C17.  The flows and connections of a built specification depend on the  *)
(* set of function names alone: FuelFlow, ExhaustFlow and CoolantFlow for  *)
(* Engine, RefrigerantFlow and AirFlow for a name containing Ac or Air,    *)
(* ElectricalPower for Battery or Engine; Engine is connected to itself by *)
(* FuelFlow and CoolantFlow and to Battery by ElectricalPower exactly when *)
(* Battery is a function, every Ac or Air function to itself by            *)
(* RefrigerantFlow, and nothing else is emitted.                           *)
(***************************************************************************)
C17_WiringFromNames ==
    (Built /\ spec # None) =>
        LET sp == spec[1]
            names == FunctionNames(sp)
            ac_names == {n \in names : Has("Ac", Chars(n)) \/ Has("Air", Chars(n))}
            flows == (IF "Engine" \in names
                      THEN {"FuelFlow", "ExhaustFlow", "CoolantFlow"} ELSE {})
                     \cup (IF ac_names # {} THEN {"RefrigerantFlow", "AirFlow"} ELSE {})
                     \cup (IF "Battery" \in names \/ "Engine" \in names
                           THEN {"ElectricalPower"} ELSE {})
            connections ==
                (IF "Engine" \in names
                 THEN {Conn("Engine", "Engine", "FuelFlow"), Conn("Engine", "Engine", "CoolantFlow")}
                 ELSE {})
                \cup (IF "Engine" \in names /\ "Battery" \in names
                      THEN {Conn("Engine", "Battery", "ElectricalPower")} ELSE {})
                \cup {Conn(n, n, "RefrigerantFlow") : n \in ac_names}
        IN  /\ Range(sp.flows) = flows
            /\ Len(sp.flows) = Cardinality(flows)
            /\ Range(sp.architecture.connections) = connections
            /\ Len(sp.architecture.connections) = Cardinality(connections)

\* Engine, Battery and AcSystem built from a KnowledgeBase that lists AcSystem first
C17_Witness ==
    /\ Built /\ spec # None
    /\ FunctionNames(spec[1]) = {"Engine", "Battery", "AcSystem"}
    /\ spec[1].functions[1].name = "AcSystem"
    /\ Len(spec[1].architecture.connections) = 4

(***************************************************************************)
(* C18.  State distribution of one merge, on the components registered     *)
(* after the record's own components are added: a single component takes   *)
(* every state; otherwise temperature and rpm go to Engine alone when      *)
(* Engine is registered, pressure goes to exactly the components whose     *)
(* name contains Ac when there is one, and any other state is written to   *)
(* every component; no other state mapping changes.                        *)
(***************************************************************************)
C18_StateDistribution ==
    Described =>
        LET comps == DOMAIN After
            states == turn.analysis.states
            ac == {c \in comps : Has("Ac", Chars(c))}
            Receives(c, k) ==
                IF Cardinality(comps) = 1 THEN TRUE
                ELSE IF k \in {"temperature", "rpm"} /\ "Engine" \in comps THEN c = "Engine"
                ELSE IF k = "pressure" /\ ac # {} THEN c \in ac
                ELSE TRUE
        IN  \A c \in comps :
                LET old == IF c \in DOMAIN Before THEN Before[c].states ELSE EmptyDict
                    new == After[c].states
                IN  /\ DOMAIN new = DOMAIN old \cup {k \in DOMAIN states : Receives(c, k)}
                    /\ \A k \in DOMAIN new :
                          new[k] = IF k \in DOMAIN states /\ Receives(c, k)
                                   THEN states[k] ELSE old[k]

\* Engine and AcSystem are registered and one record carries rpm, pressure and
\* volume: rpm reaches Engine only, pressure AcSystem only, volume both
C18_Witness ==
    /\ Described
    /\ {"rpm", "pressure", "volume"} \subseteq DOMAIN turn.analysis.states
    /\ {"Engine", "AcSystem"} \subseteq DOMAIN After
    /\ "rpm" \notin DOMAIN After["AcSystem"].states
    /\ "pressure" \notin DOMAIN After["Engine"].states
    /\ "volume" \in DOMAIN After["Engine"].states
    /\ "volume" \in DOMAIN After["AcSystem"].states

(***************************************************************************)
(* C19.  Fault distribution of one merge: a single registered component    *)
(* takes every fault; otherwise explosion, combustion and                  *)
(* mechanical_failure go to Engine alone when Engine is registered, and    *)
(* any other fault is added to every component; afterwards no fault list   *)
(* holds the same fault twice.                                             *)
(***************************************************************************)
C19_FaultDistribution ==
    Described =>
        LET comps == DOMAIN After
            faults == turn.analysis.faults
            Receives(c, f) ==
                IF Cardinality(comps) = 1 THEN TRUE
                ELSE IF f \in {"explosion", "combustion", "mechanical_failure"}
                        /\ "Engine" \in comps
                THEN c = "Engine"
                ELSE TRUE
        IN  \A c \in comps :
                LET old == IF c \in DOMAIN Before THEN Range(Before[c].faults) ELSE {}
                    new == After[c].faults
                IN  /\ Range(new) = old \cup {f \in faults : Receives(c, f)}
                    /\ \A i, j \in 1..Len(new) : i # j => new[i] # new[j]

\* explosion is reported again with Engine and AcSystem registered: Engine
\* had it already and holds it once, AcSystem does not get it
C19_Witness ==
    /\ Described
    /\ "explosion" \in turn.analysis.faults
    /\ {"Engine", "AcSystem"} \subseteq DOMAIN Before
    /\ "explosion" \in Range(Before["Engine"].faults)
    /\ "explosion" \in Range(After["Engine"].faults)
    /\ "explosion" \notin Range(After["AcSystem"].faults)

(***************************************************************************)
(* C20.  The diff a describe turn reports is empty on the turn of the      *)
(* first successful build; on a later turn with a successful build it      *)
(* lists what was added since the previous build, in particular every      *)
(* function the previous specification did not have.                       *)
(***************************************************************************)
C20_DiffSincePreviousBuild ==
    (Described /\ build_spec(extracted_info) # None) =>
        IF build_spec(turn.info) = None
        THEN response.diff = <<>>
        ELSE \A c \in FunctionNames(spec[1]) \ FunctionNames(build_spec(turn.info)[1]) :
                [added |-> "component", of |-> c] \in Range(response.diff)

(***************************************************************************)
(* C21: in a session that was not seeded from a diagram, after every turn  *)
(* the current specification is what build_spec yields on the current      *)
(* KnowledgeBase (None exactly when that build yields None), and after a   *)
(* describing turn whose build succeeded the previous specification is the *)
(* one that was current before the turn.                                   *)
(***************************************************************************)
C21_RebuiltEachTurn ==
    LET built == build_spec(extracted_info)
    IN  /\ xml_file = <<>> => spec = built
        /\ (Described /\ built # None) => last_spec = turn.spec

\* a second successful build replaced a different earlier one
C21_Witness ==
    /\ xml_file = <<>>
    /\ Described
    /\ turn.spec # None
    /\ spec # turn.spec
    /\ spec = build_spec(extracted_info)
    /\ last_spec = turn.spec

(***************************************************************************)
(* C22: every process_input() call appends its utterance to the history,   *)
(* whatever the turn was: after the call the history is the history before *)
(* it followed by the utterance, so n calls leave the n utterances in call *)
(* order.                                                                  *)
(***************************************************************************)
C22_HistoryAppendOnly ==
    /\ turn.analysis.intent = "none" => conversation_history = <<>>
    /\ turn.analysis.intent # "none" =>
          conversation_history = Append(turn.history, turn.utterance)

\* a refused generation request, a described turn, an accepted request
C22_Witness ==
    /\ Len(conversation_history) = 3
    /\ conversation_history[1].gen
    /\ ~conversation_history[2].gen
    /\ conversation_history[3].gen
    /\ response.kind = "READY_TO_GENERATE"
    /\ conversation_history = Append(turn.history, turn.utterance)

(***************************************************************************)
(* C23: a turn in which analyze_input raises leaves the system name, the   *)
(* components with their states and faults, the current and the previous   *)
(* specification as they were, is answered by the request to rephrase, and *)
(* leaves the session loop running.                                        *)
(***************************************************************************)
C23_FailedTurnLeavesKnowledge ==
    [][(turn'.analysis.intent = "raised" /\ conversation_history' # conversation_history) =>
          /\ extracted_info' = extracted_info
          /\ spec' = spec
          /\ last_spec' = last_spec
          /\ response'.kind = "rephrase"
          /\ pc' = "running"]_vars

\* the failed turn named a system and a component the session did not know
C23_Witness ==
    /\ turn.analysis.intent = "raised"
    /\ response.kind = "rephrase"
    /\ turn.info.system_name # ""
    /\ turn.analysis.system_name # turn.info.system_name
    /\ Range(turn.analysis.components) \ DOMAIN turn.info.components # {}
    /\ spec # None
    /\ extracted_info = turn.info
    /\ pc = "running"

(***************************************************************************)
(* C24: quit, exit, q, end of input and an interrupt are accepted in every *)
(* state of the running loop and end it: that step renders no file,        *)
(* changes neither the KnowledgeBase nor the specification nor the         *)
(* history, and no step follows it.                                        *)
(***************************************************************************)
C24_QuitEndsSession ==
    /\ [](pc = "running" => (ENABLED MainQuit /\ ENABLED MainInterrupt))
    /\ [][/\ pc # "running" => UNCHANGED vars
          /\ pc' = "goodbye" =>
                UNCHANGED <<rendered, extracted_info, spec, last_spec, conversation_history>>]_vars

\* a session with recorded knowledge, ready to generate, was ended instead
C24_Witness ==
    /\ pc = "goodbye"
    /\ conversation_history # <<>>
    /\ is_ready(spec, extracted_info)
    /\ rendered = <<>>

(***************************************************************************)
(* C25: whenever the current specification has exactly one function and    *)
(* every function in it has a non-empty state mapping, is_ready() is true. *)
(***************************************************************************)
C25_SingleFunctionReady ==
    (/\ spec # None
     /\ Len(spec[1].functions) = 1
     /\ \A i \in 1..Len(spec[1].functions) : DOMAIN spec[1].functions[i].states # {})
        => is_ready(spec, extracted_info)

(***************************************************************************)
(* C26: a generation request that is refused because is_ready() is false   *)
(* is answered with at least one missing item (the system name, the        *)
(* components, states for some component or fault modes for some           *)
(* component), never with "nothing".                                       *)
(***************************************************************************)
C26_RefusalNamesMissing ==
    response.kind = "cannot generate" => response.missing # <<>>

(***************************************************************************)
(* C27: a match of the range pattern (name, min, max, optional unit)       *)
(* stores the midpoint of min and max under the name, min under name_min   *)
(* and max under name_max.  Stated for the texts in which that match is    *)
(* the only match of any state pattern, so that nothing can overwrite what *)
(* it stored.                                                              *)
(***************************************************************************)
C27_RangeMidpoint ==
    LET text == turn.utterance.text
        ranges == FindIter(2, text, 1)
        states == turn.analysis.states
    IN  (/\ turn.analysis.intent = "describe"
         /\ Len(ranges) = 1
         /\ \A pattern \in {1, 3, 4, 5} : FindIter(pattern, text, 1) = <<>>)
           => LET name == StateName(ranges[1][1])
                  min_val == Float(ranges[1][2])
                  max_val == Float(ranges[1][3])
              IN  /\ \E k \in DOMAIN states :
                        Chars(k) = name /\ states[k] = (min_val + max_val) \div 2
                  /\ \E k \in DOMAIN states :
                        Chars(k) = name \o <<"_", "m", "i", "n">> /\ states[k] = min_val
                  /\ \E k \in DOMAIN states :
                        Chars(k) = name \o <<"_", "m", "a", "x">> /\ states[k] = max_val

\* some recorded state name contains one of the words
Denoted(words, states) ==
    \E k \in DOMAIN states : \E w \in words : IsSubstr(Chars(w), Lower(Chars(k)))

\* what the categories a component name falls in ask of its recorded states
CategorySignals(c, states) ==
    /\ (InLower("engine", c) \/ InLower("motor", c)) =>
          (Denoted({"rpm", "speed"}, states) /\ Denoted({"temperature", "temp"}, states))
    /\ (InLower("pump", c) \/ InLower("hydraulic", c)) =>
          (Denoted({"pressure"}, states) /\ Denoted({"flow", "rate"}, states))
    /\ (InLower("wind", c) \/ InLower("turbine", c)) =>
          Denoted({"speed", "rpm", "power"}, states)
    /\ InLower("battery", c) => Denoted({"voltage", "charge"}, states)

\* every component has three recorded states and a recorded fault
GenericMinimums ==
    \A c \in DOMAIN extracted_info.components :
        /\ Cardinality(DOMAIN extracted_info.components[c].states) >= 3
        /\ extracted_info.components[c].faults # <<>>

AllSignals ==
    \A c \in DOMAIN extracted_info.components :
        CategorySignals(c, extracted_info.components[c].states)

(***************************************************************************)
(* C28 as stated: when every component meets the generic minimums,         *)
(* is_ready() is true exactly when every component has the state signals   *)
(* of its category (engine/motor: speed and temperature; pump/hydraulic:   *)
(* pressure and flow; wind/turbine: speed, rpm or power; battery: voltage  *)
(* or charge; any other: none).                                            *)
(***************************************************************************)
C28_CategoryReadiness ==
    (response.kind \in {"ready", "not ready"} /\ GenericMinimums)
        => (response.kind = "ready" <=> AllSignals)

(***************************************************************************)
(* C28 amended: the same, when moreover a specification is current.        *)
(***************************************************************************)
C28_CategoryReadinessOnceBuilt ==
    (response.kind \in {"ready", "not ready"} /\ spec # None /\ GenericMinimums)
        => (response.kind = "ready" <=> AllSignals)

\* an engine-like and a battery component, both with their signals
C28_Witness ==
    /\ response.kind = "ready"
    /\ spec # None
    /\ GenericMinimums
    /\ "Motor" \in DOMAIN extracted_info.components
    /\ "Battery" \in DOMAIN extracted_info.components

(***************************************************************************)
(* C29: merging the record of a turn a second time changes nothing: the    *)
(* system name, the set of components, every component's state mapping and *)
(* every component's set of faults are what the first merge left.          *)
(***************************************************************************)
C29_MergeTwice ==
    Described =>
        LET twice == update_extracted_info(extracted_info, turn.analysis)
        IN  /\ twice.system_name = extracted_info.system_name
            /\ DOMAIN twice.components = DOMAIN After
            /\ \A c \in DOMAIN After :
                  /\ twice.components[c].states = After[c].states
                  /\ Range(twice.components[c].faults) = Range(After[c].faults)

\* the record brought a new component, states and faults to a KnowledgeBase
\* that already had a component
C29_Witness ==
    /\ Described
    /\ DOMAIN Before # {}
    /\ Range(turn.analysis.components) \ DOMAIN Before # {}
    /\ DOMAIN turn.analysis.states # {}
    /\ turn.analysis.faults # {}
    /\ \E c \in DOMAIN After : After[c].states # EmptyDict /\ After[c].faults # <<>>
    /\ update_extracted_info(extracted_info, turn.analysis) = extracted_info

(***************************************************************************)
(* C30: the states and faults of a record merged while no component is     *)
(* registered, the record naming none itself, reach no component and are   *)
(* kept nowhere: the merge leaves no component and empty top-level         *)
(* entries, and after every merge each recorded state and fault of a       *)
(* component was either recorded for it before or is carried by the record *)
(* just merged, so what was dropped only comes back when supplied again.   *)
(***************************************************************************)
C30_OrphansDropped ==
    /\ extracted_info.states = EmptyDict
    /\ extracted_info.faults = EmptyDict
    /\ Described =>
          /\ (DOMAIN Before = {} /\ turn.analysis.components = <<>>) => DOMAIN After = {}
          /\ \A c \in DOMAIN After :
                /\ \A k \in DOMAIN After[c].states :
                      \/ /\ k \in DOMAIN turn.analysis.states
                         /\ After[c].states[k] = turn.analysis.states[k]
                      \/ /\ c \in DOMAIN Before
                         /\ k \in DOMAIN Before[c].states
                         /\ After[c].states[k] = Before[c].states[k]
                /\ \A f \in Range(After[c].faults) :
                      \/ f \in turn.analysis.faults
                      \/ c \in DOMAIN Before /\ f \in Range(Before[c].faults)

\* a state and a fault were given before any component; the component that
\* was registered afterwards has neither
C30_Witness ==
    /\ Len(conversation_history) = 3
    /\ \A i \in 1..3 : ~conversation_history[i].gen
    /\ conversation_history[1].components = {} /\ conversation_history[1].faults # {}
    /\ conversation_history[2].components = {}
    /\ DOMAIN extract_states(conversation_history[2].text) # {}
    /\ Described
    /\ DOMAIN Before = {}
    /\ DOMAIN After # {}
    /\ \A c \in DOMAIN After : After[c].states = EmptyDict /\ After[c].faults = <<>>

=============================================================================
